---- MODULE Spec2Model ----
(***************************************************************************)
(* Model of src/main.py: the /webhook handler (whatsapp_webhook), its      *)
(* relay helper (send_whatsapp_message), the user_states table and the     *)
(* event loops of the serving processes that run the handler.              *)
(*                                                                         *)
(* Text is a sequence of one-character strings, so that strip(), lower(),  *)
(* split("@") and the substring test are computed, not assumed.            *)
(* A JSON / Python value is a tagged record: JNull (None), JStr(s),        *)
(* JObj(f) with f a function from keys to values (a dict).                 *)
(***************************************************************************)
EXTENDS Integers, Sequences, FiniteSets, TLC

\* ------------------------------------------------------------ bounds
\* Number of webhook requests of one run, and of serving processes
\* (each process owns one event loop).
NumRequests == 2
NumWorkers == 2

Requests == 1..NumRequests
Workers == 1..NumWorkers

\* ------------------------------------------------------------ values
JNull == [t |-> "null"]
JStr(s) == [t |-> "str", s |-> s]
JObj(f) == [t |-> "obj", f |-> f]
EmptyDict == JObj(<<>>)

\* Python truthiness of None, a str and a dict
Truthy(v) ==
    CASE v.t = "null" -> FALSE
      [] v.t = "str" -> v.s # <<>>
      [] v.t = "obj" -> DOMAIN v.f # {}

\* dict.get(k, default); only called on a dict (see HasGet)
DictGet(d, k, default) == IF k \in DOMAIN d.f THEN d.f[k] ELSE default

\* whether v.get(...) is defined; None.get raises AttributeError
HasGet(v) == v.t = "obj"

\* ------------------------------------------------------------ str methods
WhitespaceChars == {" ", "\t", "\n"}

UpperChars == <<"A","B","C","D","E","F","G","H","I","J","K","L","M",
                "N","O","P","Q","R","S","T","U","V","W","X","Y","Z">>
LowerChars == <<"a","b","c","d","e","f","g","h","i","j","k","l","m",
                "n","o","p","q","r","s","t","u","v","w","x","y","z">>

LowerChar(c) ==
    IF \E i \in 1..26 : UpperChars[i] = c
    THEN LowerChars[CHOOSE i \in 1..26 : UpperChars[i] = c]
    ELSE c

\* str.lower()
StrLower(s) == [i \in 1..Len(s) |-> LowerChar(s[i])]

RECURSIVE LStrip(_)
LStrip(s) ==
    IF s # <<>> /\ Head(s) \in WhitespaceChars THEN LStrip(Tail(s)) ELSE s

RECURSIVE RStrip(_)
RStrip(s) ==
    IF s # <<>> /\ s[Len(s)] \in WhitespaceChars
    THEN RStrip(SubSeq(s, 1, Len(s) - 1))
    ELSE s

\* str.strip()
StrStrip(s) == RStrip(LStrip(s))

\* word in s
StrContains(s, word) ==
    \E i \in 0..(Len(s) - Len(word)) : SubSeq(s, i + 1, i + Len(word)) = word

\* Variant: the text is cut at the last "@" (rsplit).
SplitAtLast(s) ==
    IF \E i \in 1..Len(s) : s[i] = "@"
    THEN SubSeq(s, 1, (CHOOSE i \in 1..Len(s) :
                          s[i] = "@" /\ \A j \in (i + 1)..Len(s) : s[j] # "@") - 1)
    ELSE s

\* s.split("@")[0]
SplitAtHead(s) ==
    IF \E i \in 1..Len(s) : s[i] = "@"
    THEN SubSeq(s, 1, (CHOOSE i \in 1..Len(s) :
                          s[i] = "@" /\ \A j \in 1..(i - 1) : s[j] # "@") - 1)
    ELSE s

\* ------------------------------------------------------------ literals
TriggerWords == { <<"l","e","a","v","e">>,
                  <<"p","e","r","m","i","s","s","i","o","n">>,
                  <<"s","i","c","k">> }

FallbackText == "E pele, I'm having trouble connecting to my brain. Try again soon!"
AIText == "model completion"

\* Variant: the text is not lower-cased before the substring test.
IsTriggerCaseSensitive(message) == \E w \in TriggerWords : StrContains(message, w)

\* any(word in message.lower() for word in [...])
IsTrigger(message) == \E w \in TriggerWords : StrContains(StrLower(message), w)

\* ------------------------------------------------------------ payloads
\* Text literals used by the request bodies below.
TxtSick == <<" ","S","i","c","k">>
TxtOnLeave == <<"o","n"," ","l","e","a","v","e">>
TxtPermission == <<"P","E","R","M","I","S","S","I","O","N">>
TxtHi == <<"h","i">>
TxtThanks == <<"t","h","a","n","k","s">>
TxtBlank == <<" ","\t">>
Phone1 == <<"1">>
Phone2 == <<"2">>
User1 == JStr(Phone1)
User2 == JStr(Phone2)
Jid1 == <<"1","@","s">>
Jid2 == <<"2","@","s","@","x">>
JidNoId == <<"@","s">>

\* WebhookPayload: phone_number, message, data (each Optional, default None)
Body(phone, message, data) ==
    [phone_number |-> phone, message |-> message, data |-> data]

Envelope(msg, key) == JObj([message |-> msg, key |-> key])
KeyOf(jid) == JObj([remoteJid |-> JStr(jid)])
Conversation(txt) == JObj([conversation |-> JStr(txt)])
ExtendedText(txt) == JObj([extendedTextMessage |-> JObj([text |-> JStr(txt)])])

\* The request bodies the model posts to /webhook.
Payloads ==
    { \* direct shape
      Body(JStr(Phone1), JStr(TxtSick), JNull),
      Body(JStr(Phone1), JStr(TxtHi), JNull),
      Body(JStr(Phone1), JStr(TxtBlank), JNull),
      Body(JStr(Phone1), JStr(<<>>), JNull),
      Body(JStr(Phone1), JNull, JNull),
      Body(JNull, JStr(TxtHi), JNull),
      Body(JStr(<<>>), JStr(TxtSick), JNull),
      \* relay-event shape
      Body(JStr(Phone1), JStr(TxtHi), Envelope(Conversation(TxtOnLeave), KeyOf(Jid2))),
      Body(JNull, JNull, Envelope(ExtendedText(TxtThanks), KeyOf(Jid2))),
      Body(JNull, JNull, Envelope(ExtendedText(TxtPermission), KeyOf(Jid1))),
      \* envelope without key / without message / with an empty sender id
      Body(JStr(Phone1), JStr(TxtSick), JObj([message |-> Conversation(TxtHi)])),
      Body(JStr(Phone1), JStr(TxtSick), JObj([key |-> KeyOf(Jid2)])),
      Body(JNull, JNull, Envelope(Conversation(TxtHi), KeyOf(JidNoId))),
      \* empty envelope, null message object
      Body(JStr(Phone2), JStr(TxtHi), EmptyDict),
      Body(JStr(Phone1), JStr(TxtHi), Envelope(JNull, KeyOf(Jid1))) }

\* ------------------------------------------------------------ extraction
\* Lines 99-110 of whatsapp_webhook. The result is the pair of locals
\* (phone_number, message_content), or raised = TRUE when an attribute
\* access on None raises.
NoLocal == JNull
Raised == [raised |-> TRUE, phone_number |-> NoLocal, message_content |-> NoLocal]
Extracted(phone, content) ==
    [raised |-> FALSE, phone_number |-> phone, message_content |-> content]

\* msg_obj.get("conversation") or msg_obj.get("extendedTextMessage", {}).get("text")
MessageContent(msg_obj) ==
    LET conv == DictGet(msg_obj, "conversation", JNull)
        ext == DictGet(msg_obj, "extendedTextMessage", EmptyDict)
    IN  IF Truthy(conv) THEN [raised |-> FALSE, v |-> conv]
        ELSE IF HasGet(ext) THEN [raised |-> FALSE, v |-> DictGet(ext, "text", JNull)]
        ELSE [raised |-> TRUE, v |-> JNull]

\* data.get("key", {}).get("remoteJid", "").split("@")[0]
RemotePhone(data) ==
    LET key == DictGet(data, "key", EmptyDict)
        remote_jid == IF HasGet(key) THEN DictGet(key, "remoteJid", JStr(<<>>)) ELSE JNull
    IN  IF HasGet(key) /\ remote_jid.t = "str"
        THEN [raised |-> FALSE, v |-> JStr(SplitAtHead(remote_jid.s))]
        ELSE [raised |-> TRUE, v |-> JNull]

ExtractData(payload) ==
    IF Truthy(payload.data)
    THEN LET msg_obj == DictGet(payload.data, "message", EmptyDict)
         IN  IF ~HasGet(msg_obj) THEN Raised
             ELSE LET mc == MessageContent(msg_obj)
                      ph == RemotePhone(payload.data)
                  IN  IF mc.raised \/ ph.raised THEN Raised
                      ELSE Extracted(ph.v, mc.v)
    ELSE Extracted(payload.phone_number, payload.message)

\* Variant: the check looks at the text only.
MissingDataTextOnly(x) == ~Truthy(x.message_content)

\* if not message_content or not phone_number
MissingData(x) == ~Truthy(x.message_content) \/ ~Truthy(x.phone_number)

\* ------------------------------------------------------------ table rows
\* UserState: id, phone_number (unique), state, step, temp_data.
\* A column left unset by the INSERT is NULL (JNull).
NewRow(id, phone) ==
    [id |-> id, phone_number |-> phone, state |-> "start", step |-> "intro",
     temp_data |-> JNull]

\* The session's UserState object: the loaded column values, and whether
\* the commit expired them (the next attribute access reloads the row).
NoUser == [id |-> 0, state |-> "", step |-> "", temp_data |-> JNull, expired |-> FALSE]
\* Variant: the object keeps the constructor's state and step and ignores the
\* row's.
LoadedDefaults(row) ==
    [id |-> row.id, state |-> "start", step |-> "intro",
     temp_data |-> row.temp_data, expired |-> FALSE]

\* The object as the query, the refresh or the reload fills it from the row.
Loaded(row) ==
    [id |-> row.id, state |-> row.state, step |-> row.step,
     temp_data |-> row.temp_data, expired |-> FALSE]

\* ------------------------------------------------------------ relay
\* What the relay does with the POST of send_whatsapp_message.
RelayAnswers ==
    { [kind |-> "response", ok |-> TRUE, json |-> TRUE],
      [kind |-> "response", ok |-> TRUE, json |-> FALSE],
      [kind |-> "response", ok |-> FALSE, json |-> TRUE],
      [kind |-> "response", ok |-> FALSE, json |-> FALSE],
      [kind |-> "network_error", ok |-> FALSE, json |-> FALSE] }

\* Variant: no except branch around client.post.
SendWhatsappMessageNoExcept(answer) ==
    IF answer.kind = "network_error"
    THEN [raised |-> TRUE, value |-> "None"]
    ELSE IF answer.json
    THEN [raised |-> FALSE, value |-> "json_body"]
    ELSE [raised |-> FALSE, value |-> "None"]

\* send_whatsapp_message, from the relay's answer on: client.post raises on a
\* network error, response.json() raises on a body that is not JSON, both are
\* caught; the status code is not looked at.
SendWhatsappMessage(answer) ==
    IF answer.kind = "response" /\ answer.json
    THEN [raised |-> FALSE, value |-> "json_body"]
    ELSE [raised |-> FALSE, value |-> "None"]

\* ------------------------------------------------------------ model call
ChatOutcomes == {"completion", "raises", "malformed"}

\* Variant: response['message']['content'] is read after the try block.
ResponseTextNarrowTry(outcome) ==
    IF outcome = "completion"
    THEN [raised |-> FALSE, text |-> AIText]
    ELSE [raised |-> (outcome = "malformed"), text |-> FallbackText]

\* try: response = ollama_client.chat(...); response['message']['content']
\* except Exception: fallback
ResponseText(outcome) ==
    IF outcome = "completion"
    THEN [raised |-> FALSE, text |-> AIText]
    ELSE [raised |-> FALSE, text |-> FallbackText]

\* system_prompt: the state it names and whether the leave sentence is appended
\* Variant: the prompt names the state and never adds the leave sentence.
SystemPromptStateOnly(user) ==
    [state |-> user.state, leave_instruction |-> FALSE]

SystemPrompt(user) ==
    [state |-> user.state, leave_instruction |-> (user.state = "leave_application")]

\* ------------------------------------------------------------ state
VARIABLES
    user_states,   \* the rows of table user_states
    nextId,        \* the table's id sequence
    running,       \* per serving process: the request its event loop runs, or 0
    pc,            \* per request: where the handler stands
    worker,        \* per request: the process that serves it
    payload,       \* per request: the posted body
    loc,           \* per request: the handler's locals
    response,      \* per request: what the caller got
    trace,         \* history: the collaborator calls of the request, in order
    chat_call,     \* history: the system prompt given to the model
    outbox,        \* history: the message posted to the relay
    send_result,   \* history: the relay's answer and what send_whatsapp_message made of it
    found,         \* history: the record as the request first held it
    overlap,       \* history: requests that ran while this one ran
    done_before    \* history: requests that had ended when this one started

vars == <<user_states, nextId, running, pc, worker, payload, loc, response,
          trace, chat_call, outbox, send_result, found, overlap, done_before>>

hist == <<chat_call, outbox, send_result>>

NoAnswer == [kind |-> "none", ok |-> FALSE, json |-> FALSE]
NoSend == [answer |-> NoAnswer, raised |-> FALSE, value |-> "unset"]
NoRecord == [held |-> FALSE, state |-> "", step |-> "", temp_data |-> JNull]
Held(user) == [held |-> TRUE, state |-> user.state, step |-> user.step,
               temp_data |-> user.temp_data]

NoLocals == [phone_number |-> JNull, message |-> <<>>, user |-> NoUser,
             response_text |-> ""]
NoPayload == Body(JNull, JNull, JNull)
NoResponse == [status |-> "none", reason |-> "", state |-> ""]
Ignored == [status |-> "ignored", reason |-> "Missing data", state |-> ""]
Processed(state) == [status |-> "processed", reason |-> "", state |-> state]
\* an exception leaves the handler: the server answers 500
ServerError == [status |-> "error", reason |-> "", state |-> ""]
NoChat == [called |-> FALSE, state |-> "", leave_instruction |-> FALSE, outcome |-> ""]
NoMessage == [sent |-> FALSE, number |-> JNull, text |-> ""]

Active(r) == pc[r] \notin {"idle", "queued", "done"}

Init ==
    /\ user_states = {}
    /\ nextId = 1
    /\ running = [w \in Workers |-> 0]
    /\ pc = [r \in Requests |-> "idle"]
    /\ worker = [r \in Requests |-> 1]
    /\ payload = [r \in Requests |-> NoPayload]
    /\ loc = [r \in Requests |-> NoLocals]
    /\ response = [r \in Requests |-> NoResponse]
    /\ trace = [r \in Requests |-> <<>>]
    /\ chat_call = [r \in Requests |-> NoChat]
    /\ outbox = [r \in Requests |-> NoMessage]
    /\ send_result = [r \in Requests |-> NoSend]
    /\ found = [r \in Requests |-> NoRecord]
    /\ overlap = [r \in Requests |-> {}]
    /\ done_before = [r \in Requests |-> {}]

\* Variant: the handler's UPDATE was flushed but never committed, and closing
\* the session rolls the row back to what the request first held.
CloseSessionRollsBack(rows, user, held) ==
    {IF row.id = user.id /\ held.held
     THEN [row EXCEPT !.state = held.state, !.step = held.step]
     ELSE row : row \in rows}

\* Lines 87-90, get_db's finally: db.close() ends the session. Every write of
\* the handler was committed when it was made, so the table keeps its rows.
CloseSession(rows, user, held) == rows

\* The handler returns or raises: its locals go, its session is closed, the
\* event loop is free.
Finish(r, resp) ==
    /\ user_states' = CloseSession(user_states, loc[r].user, found[r])
    /\ pc' = [pc EXCEPT ![r] = "done"]
    /\ response' = [response EXCEPT ![r] = resp]
    /\ loc' = [loc EXCEPT ![r] = NoLocals]
    /\ running' = [running EXCEPT ![worker[r]] = 0]

Called(r, what) == trace' = [trace EXCEPT ![r] = Append(@, what)]

\* The first statement after the record is in hand: the commit of a trigger
\* message, else the model call.
AfterRecord(message) == IF IsTrigger(message) THEN "commit" ELSE "chat"

\* POST /webhook reaches a serving process.
Arrive(r) ==
    /\ pc[r] = "idle"
    /\ \A q \in Requests : q < r => pc[q] # "idle"
    /\ \E p \in Payloads, w \in Workers :
        /\ payload' = [payload EXCEPT ![r] = p]
        /\ worker' = [worker EXCEPT ![r] = w]
    /\ pc' = [pc EXCEPT ![r] = "queued"]
    /\ UNCHANGED <<user_states, nextId, running, loc, response, trace, hist,
                   found, overlap, done_before>>

\* Lines 96-116: the event loop starts the handler; extraction, the
\* missing-data check and strip().
Start(r) ==
    /\ pc[r] = "queued"
    /\ running[worker[r]] = 0
    /\ LET x == ExtractData(payload[r])
       IN  IF x.raised THEN
               /\ Finish(r, ServerError)
               /\ UNCHANGED overlap
           ELSE IF MissingData(x) THEN
               /\ Finish(r, Ignored)
               /\ UNCHANGED overlap
           ELSE IF x.message_content.t # "str" THEN
               \* message_content.strip() on a value that is no str raises
               /\ Finish(r, ServerError)
               /\ UNCHANGED overlap
           ELSE
               /\ loc' = [loc EXCEPT ![r] =
                            [@ EXCEPT !.phone_number = x.phone_number,
                                      !.message = StrStrip(x.message_content.s)]]
               /\ pc' = [pc EXCEPT ![r] = "query"]
               /\ running' = [running EXCEPT ![worker[r]] = r]
               /\ overlap' = [q \in Requests |->
                                IF q = r THEN {a \in Requests : Active(a)}
                                ELSE IF Active(q) THEN overlap[q] \cup {r}
                                ELSE overlap[q]]
               /\ UNCHANGED <<response, user_states>>
    /\ done_before' = [done_before EXCEPT ![r] = {q \in Requests : pc[q] = "done"}]
    /\ UNCHANGED <<nextId, worker, payload, trace, hist, found>>

\* Variant: a failed commit of the transition is caught and the handler goes
\* on with the object it holds in memory.
OnDbErrorCommitCaught(at) ==
    IF at = "commit"
    THEN [raised |-> FALSE, next |-> "chat"]
    ELSE [raised |-> TRUE, next |-> "done"]

\* Lines 119-133: no try/except stands around the session's calls, so the
\* driver's exception leaves the handler wherever it is raised.
OnDbError(at) == [raised |-> TRUE, next |-> "done"]

\* The database is unreachable at one of the session's round trips.
PersistenceError(r) ==
    /\ pc[r] \in {"query", "insert", "refresh", "commit", "reload"}
    /\ Called(r, "db_error")
    /\ IF OnDbError(pc[r]).raised
       THEN Finish(r, ServerError)
       ELSE /\ pc' = [pc EXCEPT ![r] = OnDbError(pc[r]).next]
            /\ UNCHANGED <<user_states, loc, response, running>>
    /\ UNCHANGED <<nextId, worker, payload, hist, found, overlap, done_before>>

\* Line 119: db.query(UserState).filter(phone_number == ...).first()
\* Variant: the filter names the wrong column.
QueryMatchesWrongColumn(phone) ==
    {row \in user_states : phone.t = "str" /\ row.temp_data = phone}

\* (in SQL a comparison with NULL matches no row)
QueryMatches(phone) ==
    {row \in user_states : phone.t = "str" /\ row.phone_number = phone}

Query(r) ==
    /\ pc[r] = "query"
    /\ LET rows == QueryMatches(loc[r].phone_number)
       IN  IF rows = {} THEN
               /\ pc' = [pc EXCEPT ![r] = "insert"]
               /\ Called(r, "query_miss")
               /\ UNCHANGED <<loc, found>>
           ELSE
               /\ \E row \in rows :
                    /\ loc' = [loc EXCEPT ![r].user = Loaded(row)]
                    /\ found' = [found EXCEPT ![r] = Held(Loaded(row))]
               /\ pc' = [pc EXCEPT ![r] = AfterRecord(loc[r].message)]
               /\ Called(r, "query_hit")
    /\ UNCHANGED <<user_states, nextId, running, worker, payload, response, hist,
                   overlap, done_before>>

\* Variant: phone_number carries no unique index, every insert is accepted.
UniqueViolationNone(phone) == FALSE

\* The unique index on phone_number.
UniqueViolation(phone) ==
    \E row \in user_states : phone.t = "str" /\ row.phone_number = phone

\* Lines 121-123: UserState(...), db.add, db.commit
Insert(r) ==
    /\ pc[r] = "insert"
    /\ nextId' = nextId + 1
    /\ IF UniqueViolation(loc[r].phone_number) THEN
           /\ Called(r, "insert_rejected")
           /\ Finish(r, ServerError)
       ELSE
           /\ user_states' = user_states \cup {NewRow(nextId, loc[r].phone_number)}
           /\ loc' = [loc EXCEPT ![r].user = [NoUser EXCEPT !.id = nextId,
                                                            !.expired = TRUE]]
           /\ pc' = [pc EXCEPT ![r] = "refresh"]
           /\ Called(r, "insert")
           /\ UNCHANGED <<running, response>>
    /\ UNCHANGED <<worker, payload, hist, found, overlap, done_before>>

\* The row behind the session's object.
RowOf(user) == CHOOSE row \in user_states : row.id = user.id

\* Line 124: db.refresh(user)
Refresh(r) ==
    /\ pc[r] = "refresh"
    /\ loc' = [loc EXCEPT ![r].user = Loaded(RowOf(loc[r].user))]
    /\ found' = [found EXCEPT ![r] = Held(Loaded(RowOf(loc[r].user)))]
    /\ pc' = [pc EXCEPT ![r] = AfterRecord(loc[r].message)]
    /\ Called(r, "refresh")
    /\ UNCHANGED <<user_states, nextId, running, worker, payload, response, hist,
                   overlap, done_before>>

\* Variant: a trigger word on a record already in leave_application sends it
\* back to start.
TransitionToggle(user, message) ==
    IF IsTrigger(message)
    THEN IF user.state = "leave_application"
         THEN [state |-> "start", step |-> "intro"]
         ELSE [state |-> "leave_application", step |-> "asking_details"]
    ELSE [state |-> user.state, step |-> user.step]

\* Lines 127-129: the values the handler assigns to user.state and user.step.
Transition(user, message) ==
    IF IsTrigger(message)
    THEN [state |-> "leave_application", step |-> "asking_details"]
    ELSE [state |-> user.state, step |-> user.step]

\* Variant: the UPDATE carries no WHERE clause.
UpdateTargetAll(row, user) == TRUE

\* The WHERE clause of the flushed UPDATE: the row of the session's object.
UpdateTarget(row, user) == row.id = user.id

\* Variant: state and step go out in two statements and only the first is
\* committed.
FlushStateOnly(row, user, new) ==
    [row EXCEPT !.state = IF new.state # user.state THEN new.state ELSE @]

\* The UPDATE the session flushes: only the attributes whose value differs
\* from the loaded one, in one statement, WHERE id = user.id.
Flush(row, user, new) ==
    [row EXCEPT !.state = IF new.state # user.state THEN new.state ELSE @,
                !.step = IF new.step # user.step THEN new.step ELSE @]

\* Lines 127-130, reached only with a trigger word in the message:
\* db.commit() sends the UPDATE and expires the object.
Commit(r) ==
    /\ pc[r] = "commit"
    /\ LET user == loc[r].user
           new == Transition(user, loc[r].message)
       IN  /\ user_states' = {IF UpdateTarget(row, user) THEN Flush(row, user, new)
                               ELSE row : row \in user_states}
           /\ loc' = [loc EXCEPT ![r].user = [user EXCEPT !.state = new.state,
                                                          !.step = new.step,
                                                          !.expired = TRUE]]
           /\ Called(r, IF new.state # user.state \/ new.step # user.step
                        THEN "update" ELSE "commit")
    /\ pc' = [pc EXCEPT ![r] = "reload"]
    /\ UNCHANGED <<nextId, running, worker, payload, response, hist, found,
                   overlap, done_before>>

\* Line 133: user.state on an expired object reloads the row.
Reload(r) ==
    /\ pc[r] = "reload"
    /\ loc' = [loc EXCEPT ![r].user = Loaded(RowOf(loc[r].user))]
    /\ pc' = [pc EXCEPT ![r] = "chat"]
    /\ Called(r, "reload")
    /\ UNCHANGED <<user_states, nextId, running, worker, payload, response, hist,
                   found, overlap, done_before>>

\* Lines 133-148: the prompt, the model call with its except branch, and
\* send_whatsapp_message up to the await of client.post, where the handler
\* leaves the event loop.
Chat(r) ==
    /\ pc[r] = "chat"
    /\ \E outcome \in ChatOutcomes :
        LET prompt == SystemPrompt(loc[r].user)
            reply == ResponseText(outcome)
        IN  /\ chat_call' = [chat_call EXCEPT ![r] =
                               [called |-> TRUE, state |-> prompt.state,
                                leave_instruction |-> prompt.leave_instruction,
                                outcome |-> outcome]]
            /\ IF reply.raised THEN
                   /\ Called(r, "chat")
                   /\ Finish(r, ServerError)
                   /\ UNCHANGED outbox
               ELSE
                   /\ trace' = [trace EXCEPT ![r] = @ \o <<"chat", "send">>]
                   /\ loc' = [loc EXCEPT ![r].response_text = reply.text]
                   /\ outbox' = [outbox EXCEPT ![r] =
                                   [sent |-> TRUE, number |-> loc[r].phone_number,
                                    text |-> reply.text]]
                   /\ pc' = [pc EXCEPT ![r] = "awaiting"]
                   /\ running' = [running EXCEPT ![worker[r]] = 0]
                   /\ UNCHANGED <<response, user_states>>
    /\ UNCHANGED <<nextId, worker, payload, send_result, found, overlap,
                   done_before>>

\* Lines 79-83 and 149-150: the relay's answer resumes the handler on its
\* event loop; it returns the state of its UserState object.
RelayAnswer(r) ==
    /\ pc[r] = "awaiting"
    /\ running[worker[r]] = 0
    /\ \E answer \in RelayAnswers :
        LET result == SendWhatsappMessage(answer)
        IN  /\ send_result' = [send_result EXCEPT ![r] =
                                  [answer |-> answer, raised |-> result.raised,
                                   value |-> result.value]]
            /\ IF result.raised
               THEN Finish(r, ServerError)
               ELSE Finish(r, Processed(loc[r].user.state))
    /\ UNCHANGED <<nextId, worker, payload, trace, chat_call, outbox, found,
                   overlap, done_before>>

Next ==
    \E r \in Requests :
        \/ Arrive(r)
        \/ Start(r)
        \/ PersistenceError(r)
        \/ Query(r)
        \/ Insert(r)
        \/ Refresh(r)
        \/ Commit(r)
        \/ Reload(r)
        \/ Chat(r)
        \/ RelayAnswer(r)

Spec == Init /\ [][Next]_vars

TypeOK ==
    /\ \A row \in user_states : row.id \in 1..(nextId - 1)
    /\ running \in [Workers -> Requests \cup {0}]
    /\ \A r \in Requests :
        pc[r] \in {"idle", "queued", "query", "insert", "refresh", "commit",
                   "reload", "chat", "awaiting", "done"}

\* ============================================================ properties
\* Helpers of the properties below.
Handled(r) == pc[r] \notin {"idle", "queued"}
Range(seq) == {seq[i] : i \in 1..Len(seq)}
TextAbsentOrEmpty(v) == v = JNull \/ v = JStr(<<>>)
NoCollaboratorCall(r) ==
    trace[r] = <<>> /\ ~chat_call[r].called /\ ~outbox[r].sent
UserOf(r) == ExtractData(payload[r]).phone_number
RowsOf(u) == {row \in user_states : row.phone_number = u}

\* The extraction ended, and the text or the user identifier it produced is
\* None or "".
NothingExtracted(p) ==
    LET x == ExtractData(p)
    IN  /\ ~x.raised
        /\ TextAbsentOrEmpty(x.message_content) \/ TextAbsentOrEmpty(x.phone_number)

\* C1: a request whose extracted text or user identifier is absent or empty
\* gets {status: ignored, reason: Missing data} and makes no state-store read
\* or write, no model call and no dispatch call.
C1_MissingDataIgnored ==
    \A r \in Requests :
        Handled(r) /\ NothingExtracted(payload[r]) =>
            /\ pc[r] = "done"
            /\ response[r] = Ignored
            /\ NoCollaboratorCall(r)

\* Both an envelope without remoteJid and a direct body without text were ignored.
C1_Witness ==
    \E r, q \in Requests :
        /\ pc[r] = "done" /\ response[r] = Ignored
        /\ Truthy(payload[r].data) /\ "key" \notin DOMAIN payload[r].data.f
        /\ pc[q] = "done" /\ response[q] = Ignored
        /\ ~Truthy(payload[q].data) /\ payload[q].message = JNull

\* The extracted text is not empty and strip() empties it.
WhitespaceOnly(p) ==
    LET x == ExtractData(p)
    IN  /\ ~x.raised
        /\ Truthy(x.phone_number)
        /\ x.message_content.t = "str"
        /\ x.message_content.s # <<>>
        /\ StrStrip(x.message_content.s) = <<>>

\* C2: a request whose text is whitespace only is ignored: the response is
\* {status: ignored}, no record is created or modified, no model or dispatch
\* call is made.
C2_WhitespaceOnlyIgnored ==
    \A r \in Requests :
        Handled(r) /\ WhitespaceOnly(payload[r]) =>
            /\ pc[r] = "done"
            /\ response[r].status = "ignored"
            /\ NoCollaboratorCall(r)

\* C3: every record is created with state = start, step = intro and
\* temp_data = "", and no step leaves a record with a state or step outside
\* the values the handler writes (none is null).
C3_CreationDefaults ==
    [][ /\ \A row \in user_states' :
              row.id \notin {old.id : old \in user_states} =>
                  /\ row.state = "start"
                  /\ row.step = "intro"
                  /\ row.temp_data = JStr(<<>>)
        /\ \A row \in user_states' :
              /\ row.state \in {"start", "leave_application"}
              /\ row.step \in {"intro", "asking_details"} ]_vars

TextOf(r) == ExtractData(payload[r]).message_content
PastQuery(r) == trace[r] # <<>> /\ trace[r][1] # "db_error"

\* q ended before r started, both for the same user, and q created the record.
CreatedBefore(q, r) ==
    /\ q \in done_before[r]
    /\ "insert" \in Range(trace[q])
    /\ UserOf(q) = UserOf(r)

\* C4: of two requests for a new user processed one after the other, only the
\* first creates a record; the second finds that record, with the fields
\* stored in it, and inserts nothing.
C4_GetOrCreateIdempotent ==
    \A r, q \in Requests :
        CreatedBefore(q, r) /\ PastQuery(r) =>
            /\ "query_hit" \in Range(trace[r])
            /\ Range(trace[r]) \cap {"query_miss", "insert", "insert_rejected"} = {}
            /\ Cardinality(RowsOf(UserOf(r))) = 1
            /\ found[r].held
            /\ overlap[r] = {} /\ Len(trace[r]) = 1 =>
                   \E row \in RowsOf(UserOf(r)) : found[r] = Held(Loaded(row))

\* The second request ended after finding the record as the first left it,
\* in leave_application.
C4_Witness ==
    \E r, q \in Requests :
        /\ CreatedBefore(q, r)
        /\ "update" \in Range(trace[q])
        /\ pc[r] = "done"
        /\ response[r].status = "processed"
        /\ found[r].state = "leave_application"
        /\ found[r].step = "asking_details"

TriggerTexts == {JStr(TxtSick), JStr(TxtOnLeave), JStr(TxtPermission)}
PlainTexts == {JStr(TxtHi), JStr(TxtThanks), JStr(TxtBlank)}
PastTransition(r) == Range(trace[r]) \cap {"update", "commit", "reload", "chat"} # {}
InLeave(row) == row.state = "leave_application" /\ row.step = "asking_details"

\* C5: for a record found in state start, a message with "leave", "permission"
\* or "sick" in its lower-cased text moves the stored record to
\* (leave_application, asking_details); a message with none of them writes
\* nothing and leaves the stored (state, step) as the request found it.
C5_TransitionPolicy ==
    \A r \in Requests :
        found[r].held /\ found[r].state = "start" =>
            /\ TextOf(r) \in TriggerTexts /\ PastTransition(r) =>
                   /\ "update" \in Range(trace[r])
                   /\ RowsOf(UserOf(r)) # {}
                   /\ \A row \in RowsOf(UserOf(r)) : InLeave(row)
            /\ TextOf(r) \in PlainTexts =>
                   /\ Range(trace[r]) \cap {"update", "commit", "reload"} = {}
                   /\ Active(r) /\ overlap[r] = {} =>
                          \A row \in RowsOf(UserOf(r)) :
                              row.state = found[r].state /\ row.step = found[r].step

\* One request moved its record with a capitalised trigger word; another, with
\* plain text, reached its dispatch with the record it found in start.
C5_Witness ==
    \E r, q \in Requests :
        /\ TextOf(r) \in {JStr(TxtSick), JStr(TxtPermission)}
        /\ found[r].state = "start"
        /\ "update" \in Range(trace[r])
        /\ pc[r] = "done" /\ response[r] = Processed("leave_application")
        /\ TextOf(q) \in PlainTexts
        /\ found[q].state = "start"
        /\ pc[q] = "awaiting" /\ overlap[q] = {}
        /\ \E row \in RowsOf(UserOf(q)) : row.state = "start" /\ row.step = "intro"

\* C6: a stored record in state leave_application is in leave_application
\* after every step of every request.
C6_LeaveAbsorbing ==
    [][ \A row \in user_states :
            row.state = "leave_application" =>
                \E next \in user_states' :
                    /\ next.id = row.id
                    /\ next.phone_number = row.phone_number
                    /\ next.state = "leave_application" ]_vars

\* One request moved the record to leave_application; a later one, again with
\* a trigger word, found it there, committed and ended, and it is still there.
C6_Witness ==
    \E r, q \in Requests :
        /\ q \in done_before[r]
        /\ UserOf(r) = UserOf(q)
        /\ "update" \in Range(trace[q])
        /\ found[r].state = "leave_application"
        /\ TextOf(r) \in TriggerTexts
        /\ "commit" \in Range(trace[r])
        /\ pc[r] = "done"
        /\ \A row \in RowsOf(UserOf(r)) : row.state = "leave_application"

ModelFailed(r) == chat_call[r].called /\ chat_call[r].outcome \in {"raises", "malformed"}
Answered(r) == send_result[r].answer.kind # "none"
Delivered(answer) == answer.kind = "response" /\ answer.ok

\* C7: when the model call raises or answers without message.content, the
\* fallback text is dispatched to the user, no error leaves the handler and
\* the request returns {status: processed}.
C7_ModelFailureFallback ==
    \A r \in Requests :
        ModelFailed(r) =>
            /\ outbox[r] = [sent |-> TRUE, number |-> UserOf(r), text |-> FallbackText]
            /\ pc[r] \in {"awaiting", "done"}
            /\ pc[r] = "done" => response[r].status = "processed"

\* One request ended processed after the model raised, another after a
\* malformed answer.
C7_Witness ==
    \E r, q \in Requests :
        /\ chat_call[r].outcome = "raises" /\ chat_call[q].outcome = "malformed"
        /\ pc[r] = "done" /\ pc[q] = "done"
        /\ response[r].status = "processed" /\ response[q].status = "processed"
        /\ outbox[r].text = FallbackText /\ outbox[q].text = FallbackText

\* C8: send_whatsapp_message never raises, returns None whenever the delivery
\* failed (non-2xx answer or network error), and so returns a value only for
\* a delivered message.
C8_SendNullOnFailure ==
    \A r \in Requests :
        Answered(r) =>
            /\ ~send_result[r].raised
            /\ ~Delivered(send_result[r].answer) => send_result[r].value = "None"

\* C9: a request that reached the dispatch returns {status: processed, state}
\* whatever the relay did with the message.
C9_ResponseIgnoresDelivery ==
    \A r \in Requests :
        outbox[r].sent =>
            \/ pc[r] = "awaiting" /\ ~Answered(r)
            \/ /\ pc[r] = "done"
               /\ Answered(r)
               /\ response[r].status = "processed"
               /\ response[r].state \in {"start", "leave_application"}

\* One request ended processed on a network error, another on a non-2xx answer.
C9_Witness ==
    \E r, q \in Requests :
        /\ send_result[r].answer.kind = "network_error"
        /\ send_result[q].answer.kind = "response" /\ ~send_result[q].answer.ok
        /\ response[r].status = "processed" /\ response[q].status = "processed"

\* C10: once a request has committed its UPDATE to (leave_application,
\* asking_details), the stored record has that value in every later state,
\* also when the request's reload, model call or dispatch fails.
C10_NoRollbackAfterSave ==
    \A r \in Requests :
        "update" \in Range(trace[r]) =>
            /\ RowsOf(UserOf(r)) # {}
            /\ \A row \in RowsOf(UserOf(r)) : InLeave(row)

\* A request committed the transition, then its model call raised and its
\* dispatch hit a network error; another committed and failed on the reload.
C10_Witness ==
    \E r, q \in Requests :
        /\ "update" \in Range(trace[r])
        /\ chat_call[r].outcome = "raises"
        /\ send_result[r].answer.kind = "network_error"
        /\ pc[r] = "done"
        /\ trace[q] = <<"query_miss", "insert", "refresh", "update", "db_error">>
        /\ response[q] = ServerError
        /\ UserOf(r) # UserOf(q)
        /\ \A row \in RowsOf(UserOf(r)) \cup RowsOf(UserOf(q)) : InLeave(row)

DbFailed(r) == "db_error" \in Range(trace[r])

\* C11: a request that meets a persistence failure, at the lookup, the
\* creation, the refresh, the commit or the reload, ends in the server's error
\* answer, neither ignored nor processed, without a model or a dispatch call.
C11_PersistenceFailureSurfaces ==
    \A r \in Requests :
        DbFailed(r) =>
            /\ pc[r] = "done"
            /\ response[r] = ServerError
            /\ response[r].status \notin {"ignored", "processed"}
            /\ ~chat_call[r].called
            /\ ~outbox[r].sent
            /\ trace[r][Len(trace[r])] = "db_error"

\* One request failed at the creation of its record, another at the commit
\* of its transition.
C11_Witness ==
    \E r, q \in Requests :
        /\ trace[r] = <<"query_miss", "db_error">>
        /\ trace[q] \in { <<"query_hit", "db_error">>,
                          <<"query_miss", "insert", "refresh", "db_error">> }
        /\ TextOf(q) \in TriggerTexts
        /\ response[r] = ServerError /\ response[q] = ServerError

\* C12: the stored (state, step) of every record is (start, intro) or
\* (leave_application, asking_details) in every reachable state.
C12_NoTornWrite ==
    \A row \in user_states :
        \/ row.state = "start" /\ row.step = "intro"
        \/ row.state = "leave_application" /\ row.step = "asking_details"

\* Two requests for one user ran at the same time, both held the record in
\* start and both sent the UPDATE.
C12_Witness ==
    \E r, q \in Requests :
        /\ r # q
        /\ UserOf(r) = UserOf(q)
        /\ q \in overlap[r]
        /\ found[r].state = "start" /\ found[q].state = "start"
        /\ "update" \in Range(trace[r]) /\ "update" \in Range(trace[q])
        /\ \A row \in RowsOf(UserOf(r)) : InLeave(row)

\* The request stands at a synchronous call: a session round trip or the
\* model call.
WaitingOnRoundTrip(r) ==
    pc[r] \in {"query", "insert", "refresh", "commit", "reload", "chat"}
HasUser(r) == pc[r] # "idle" /\ ~ExtractData(payload[r]).raised /\ Truthy(UserOf(r))
StepOf(q) ==
    \/ Start(q) \/ PersistenceError(q) \/ Query(q) \/ Insert(q) \/ Refresh(q)
    \/ Commit(q) \/ Reload(q) \/ Chat(q) \/ RelayAnswer(q)

\* C13: while a request waits on a session round trip or on the model call,
\* every unfinished request for another user can take its next step.
C13_NoCrossUserBlocking ==
    \A r, q \in Requests :
        /\ WaitingOnRoundTrip(r)
        /\ pc[q] \notin {"idle", "done"}
        /\ HasUser(r) /\ HasUser(q)
        /\ UserOf(r) # UserOf(q)
        => ENABLED StepOf(q)

\* What the envelope alone holds: a field of an object, None when the value is
\* no object or has no such key.
EnvField(v, k) == IF v.t = "obj" /\ k \in DOMAIN v.f THEN v.f[k] ELSE JNull
EnvText(p) ==
    LET msg == EnvField(p.data, "message")
        conv == EnvField(msg, "conversation")
    IN  IF Truthy(conv) THEN conv
        ELSE EnvField(EnvField(msg, "extendedTextMessage"), "text")
EnvJid(p) == EnvField(EnvField(p.data, "key"), "remoteJid")
EnvUser(p) == IF EnvJid(p).t = "str" THEN JStr(SplitAtHead(EnvJid(p).s)) ELSE JNull

\* C14: a body that carries the data field is read from the envelope only:
\* with a text and an address in the envelope the request works on these, and
\* without one of them it is ignored, whatever the flat fields hold.
C14_EnvelopePrecedence ==
    \A r \in Requests :
        Handled(r) /\ payload[r].data.t = "obj" =>
            IF Truthy(EnvText(payload[r])) /\ Truthy(EnvUser(payload[r]))
            THEN /\ Active(r) => loc[r].phone_number = EnvUser(payload[r])
                 /\ outbox[r].sent => outbox[r].number = EnvUser(payload[r])
                 /\ response[r].status # "ignored"
            ELSE /\ pc[r] = "done"
                 /\ response[r] = Ignored
                 /\ NoCollaboratorCall(r)

\* id is a non-empty text without "@" and jid is id, "@" and a domain.
IsIdOf(jid, id) ==
    /\ Len(id) >= 1
    /\ Len(id) < Len(jid)
    /\ \A i \in 1..Len(id) : id[i] = jid[i] /\ id[i] # "@"
    /\ jid[Len(id) + 1] = "@"
WellFormedJid(v) == v.t = "str" /\ \E n \in 1..Len(v.s) : IsIdOf(v.s, SubSeq(v.s, 1, n))
NamesIdOf(jid, v) == v.t = "str" /\ IsIdOf(jid.s, v.s)

\* C15: for an envelope whose remoteJid is "<id>@<domain>" with a non-empty
\* id, the handler's phone_number, the key of the record it looks up or
\* creates and the recipient of the dispatch are exactly <id>.
C15_UserIdBeforeAt ==
    \A r \in Requests :
        /\ Handled(r)
        /\ Truthy(payload[r].data)
        /\ WellFormedJid(EnvJid(payload[r]))
        /\ Truthy(EnvText(payload[r]))
        => /\ response[r].status \notin {"ignored", "error"} \/ trace[r] # <<>>
           /\ Active(r) => NamesIdOf(EnvJid(payload[r]), loc[r].phone_number)
           /\ outbox[r].sent => NamesIdOf(EnvJid(payload[r]), outbox[r].number)
           /\ Range(trace[r]) \cap {"insert", "query_hit"} # {} =>
                  \E row \in user_states :
                      NamesIdOf(EnvJid(payload[r]), row.phone_number)

\* A request with remoteJid "2@s@x" created the record of "2" and its reply
\* went to "2".
C15_Witness ==
    \E r \in Requests :
        /\ EnvJid(payload[r]) = JStr(Jid2)
        /\ Truthy(payload[r].data)
        /\ "insert" \in Range(trace[r])
        /\ pc[r] = "done"
        /\ outbox[r].number = User2
        /\ RowsOf(User2) # {}

\* No other request for r's user has been handled.
OnlyRequestOfUser(r) ==
    \A q \in Requests : q # r /\ Handled(q) => ~HasUser(q) \/ UserOf(q) # UserOf(r)

\* C16: after a processed request the record's temp_data holds the text of
\* that message (as received, or stripped).
C16_ScratchHoldsLatestMessage ==
    \A r \in Requests :
        /\ pc[r] = "done"
        /\ response[r].status = "processed"
        /\ OnlyRequestOfUser(r)
        => \A row \in RowsOf(UserOf(r)) :
               row.temp_data \in {TextOf(r), JStr(StrStrip(TextOf(r).s))}

\* Every other request for r's user had ended when r started: r ran alone on
\* its record and is the last to have touched it.
RanAlone(r) ==
    \A q \in Requests :
        q # r /\ Handled(q) /\ HasUser(q) /\ UserOf(q) = UserOf(r) => q \in done_before[r]

\* C17: a processed request that ran without a concurrent request for its
\* user answers with the state stored for that user when it ends:
\* leave_application (step asking_details) after a trigger message, the state
\* it found after a message without trigger word.
C17_ResponseStateIsStoredState ==
    \A r \in Requests :
        pc[r] = "done" /\ response[r].status = "processed" /\ RanAlone(r) =>
            /\ RowsOf(UserOf(r)) # {}
            /\ \A row \in RowsOf(UserOf(r)) :
                   /\ row.state = response[r].state
                   /\ TextOf(r) \in TriggerTexts => InLeave(row)
            /\ TextOf(r) \in TriggerTexts => response[r].state = "leave_application"
            /\ TextOf(r) \in PlainTexts => response[r].state = found[r].state

\* A trigger message on an empty table was answered with leave_application;
\* a later plain message of that user was answered with the state it found.
C17_Witness ==
    \E r, q \in Requests :
        /\ q \in done_before[r]
        /\ UserOf(q) = UserOf(r)
        /\ TextOf(q) \in TriggerTexts
        /\ "query_miss" \in Range(trace[q])
        /\ response[q] = Processed("leave_application")
        /\ TextOf(r) \in PlainTexts
        /\ "query_hit" \in Range(trace[r])
        /\ pc[r] = "done"
        /\ RanAlone(r)
        /\ response[r] = Processed("leave_application")

\* The calls of r that write the table all come before its model call.
SavesPrecedeChat(r) ==
    \A i, j \in DOMAIN trace[r] :
        trace[r][i] = "chat" /\ trace[r][j] \in {"insert", "update", "commit"} => j < i

\* C18: the prompt of a request is built from the state its transition left:
\* it carries the leave instruction exactly when that state is
\* leave_application, a trigger message gets it in the same request whatever
\* the state found, every write of the request precedes its model call, and
\* with no concurrent request for the user the state named in the prompt is
\* the stored one.
C18_PromptFollowsTransition ==
    \A r \in Requests :
        chat_call[r].called =>
            /\ chat_call[r].leave_instruction <=> chat_call[r].state = "leave_application"
            /\ TextOf(r) \in TriggerTexts =>
                   /\ chat_call[r].leave_instruction
                   /\ Range(trace[r]) \cap {"update", "commit"} # {}
            /\ TextOf(r) \in PlainTexts => chat_call[r].state = found[r].state
            /\ SavesPrecedeChat(r)
            /\ RanAlone(r) =>
                   \A row \in RowsOf(UserOf(r)) : row.state = chat_call[r].state

\* A trigger message of a user found in start was followed by a model call
\* whose prompt carries the leave instruction.
C18_Witness ==
    \E r \in Requests :
        /\ "query_hit" \in Range(trace[r])
        /\ found[r].state = "start"
        /\ TextOf(r) \in TriggerTexts
        /\ "update" \in Range(trace[r])
        /\ chat_call[r].called
        /\ chat_call[r].leave_instruction

\* C19: two requests of one unknown user that both miss the record at the
\* lookup never leave two records for that user: the unique index rejects the
\* second insert, the rejected request ends as a server error with no model
\* call and no dispatch, and the user keeps exactly one record.
C19_InsertRaceKeepsOneRecord ==
    /\ \A a, b \in user_states : a.phone_number = b.phone_number => a = b
    /\ \A r \in Requests :
           "insert_rejected" \in Range(trace[r]) =>
               /\ "query_miss" \in Range(trace[r])
               /\ pc[r] = "done"
               /\ response[r] = ServerError
               /\ chat_call[r] = NoChat
               /\ outbox[r] = NoMessage
               /\ Cardinality(RowsOf(UserOf(r))) = 1
    /\ \A r, q \in Requests :
           /\ r # q
           /\ HasUser(r) /\ HasUser(q) /\ UserOf(r) = UserOf(q)
           /\ "query_miss" \in Range(trace[r]) /\ "query_miss" \in Range(trace[q])
           => ~("insert" \in Range(trace[r]) /\ "insert" \in Range(trace[q]))

\* Both requests of one user missed the record; one inserted it, the other's
\* insert was rejected.
C19_Witness ==
    \E r, q \in Requests :
        /\ r # q
        /\ UserOf(r) = UserOf(q)
        /\ "query_miss" \in Range(trace[r]) /\ "query_miss" \in Range(trace[q])
        /\ "insert" \in Range(trace[q])
        /\ "insert_rejected" \in Range(trace[r])
        /\ response[r] = ServerError
        /\ Cardinality(RowsOf(UserOf(r))) = 1

\* The rows of every user but u.
RowsOfOthers(rows, u) == {row \in rows : row.phone_number # u}

\* C20: a step of a request for user u, whatever the request's outcome,
\* leaves the rows of every other user as they are, neither creating nor
\* deleting one, and no step removes a row of any user.
C20_OtherUsersUntouched ==
    [][\A r \in Requests :
           pc'[r] # pc[r] =>
               /\ RowsOfOthers(user_states', UserOf(r)) = RowsOfOthers(user_states, UserOf(r))
               /\ {row.id : row \in user_states} \subseteq {row.id : row \in user_states'}
               /\ Cardinality(user_states') >= Cardinality(user_states)]_vars

\* One user's record was moved to leave_application by an update while the
\* record another user's request had inserted before stays (start, intro).
C20_Witness ==
    \E r, q \in Requests :
        /\ HasUser(r) /\ HasUser(q) /\ UserOf(r) # UserOf(q)
        /\ "insert" \in Range(trace[q])
        /\ q \in done_before[r]
        /\ "update" \in Range(trace[r])
        /\ pc[r] = "done"
        /\ RowsOf(UserOf(q)) # {}
        /\ \A row \in RowsOf(UserOf(q)) : row.state = "start" /\ row.step = "intro"
        /\ \A row \in RowsOf(UserOf(r)) : InLeave(row)

====
